---- MODULE Spec2Model ----
(***************************************************************************)
(* Model of servo's src/servo/css/styles.rs: the per-node auxiliary data   *)
(* (LayoutData) lifecycle and the fork-join style recomputation            *)
(* recompute_style_for_subtree, one task per child with an acknowledgment  *)
(* channel per call.                                                       *)
(***************************************************************************)
EXTENDS Integers, Sequences, FiniteSets, TLC

VARIABLES
    parent,     \* the document tree: parent[n] is n's parent, 0 for the root
    kind,       \* kind[n]: the NodeKind of node n
    aux,        \* aux[n]: None, or Some(LayoutData) attached to node n
    nextId,     \* identity of the next @LayoutData box to be allocated
    attached,   \* history: attached[n] = ids of the boxes set_aux put on n
    cpc,        \* the calling task: "idle", "recompute" or "aborted"
    ops,        \* number of top-level operations called so far
    last,       \* the last top-level operation and what it returned: the list
                \* of boxes (ret) or the copy of the style (style)
    initDone,   \* history: nodes r whose initialize_style_for_subtree returned
    top,        \* receiver of the current top-level recompute call
    styles,     \* the Stylesheet behind the ARC of the current recompute
    pre,        \* history: aux as it was when the current recompute was called
    pc,         \* pc[n]: position of the recompute call whose receiver is n
    i,          \* i[n]: the counter `i` of the call on n
    kidx,       \* kidx[n]: children the for loop of the call on n has visited
    chan,       \* chan[n][s]: unreceived acks sent by task s on n's ack_chan
    spawned,    \* history: spawned[n] = kids whose task the call on n spawned
    acked,      \* history: acked[n][s] = acks of task s the call on n received
    writes,     \* history: writes[n] = calls whose match step wrote n's style
    failure,    \* failure[n]: why the task running the call on n failed
    arc,        \* the ARC of the Stylesheet: arc.live = handles alive,
                \* arc.cloned = history, clones made in the current recompute
    sched       \* the scheduling policy the tasks run under (fixed in a run)

vars == <<parent, kind, aux, nextId, attached, cpc, ops, last, initDone, top,
          styles, pre, pc, i, kidx, chan, spawned, acked, writes, failure,
          arc, sched>>

\* what no operation changes: the tree, its nodes' kinds, the policy
treeVars == <<parent, kind, sched>>
auxVars == <<aux, nextId, attached>>
runVars == <<top, styles, pre, pc, i, kidx, chan, spawned, acked, writes, failure,
            arc>>

----------------------------------------------------------------------------
(* Bounds of the model *)

\* largest number of nodes of a document tree
MaxNodes == 3
\* largest number of top-level operations the calling task performs
MaxOps == 3

----------------------------------------------------------------------------
(* Option<T> *)

None == <<>>
Some(v) == <<v>>

----------------------------------------------------------------------------
(* The tree (NTree) and node kinds (dom::base) *)

Nodes == 1..Len(parent)

Root == 1

\* the document trees of n nodes: node 1 is the root, a child follows its parent
TreesOf(n) ==
    {p \in [1..n -> 0..(n - 1)] :
        /\ p[1] = 0
        /\ \A c \in 2..n : p[c] \in 1..(c - 1)}

Trees == UNION {TreesOf(n) : n \in 1..MaxNodes}

\* NTree.each_child(n): the children of n, in iteration order
each_child(n) == SelectSeq([c \in 1..Len(parent) |-> c], LAMBDA c : parent[c] = n)

RECURSIVE Ancestors(_)
\* the proper ancestors of n
Ancestors(n) == IF parent[n] = 0 THEN {} ELSE {parent[n]} \cup Ancestors(parent[n])

\* the nodes of the subtree rooted at n
Subtree(n) == {d \in Nodes : d = n \/ n \in Ancestors(d)}

Descendants(n) == Subtree(n) \ {n}

NodeKinds ==
    << <<"Element", "HTMLDivElement">>, <<"Text">>, <<"Element", "HTMLImageElement">>,
       <<"Element", "HTMLHeadElement">>, <<"Element", "HTMLScriptElement">>,
       <<"Element", "UnknownElement">>, <<"Comment">>, <<"Doctype">> >>

\* the kinds given to the nodes of a tree of n nodes
KindsOf(n) == [c \in 1..n |-> NodeKinds[((c - 1) % Len(NodeKinds)) + 1]]

----------------------------------------------------------------------------
(* Default styles *)

\* (mutant) every element but a div is displayed inline
display_type_inline_elements(k) ==
    CASE k[1] = "Text" -> "Inline"
      [] k[1] = "Element" -> IF k[2] = "HTMLDivElement" THEN "Block" ELSE "Inline"
      [] k[1] \in {"Comment", "Doctype"} -> "DisplayNone"

default_display_type(k) ==
    CASE k[1] = "Text" -> "Inline"
      [] k[1] = "Element" ->
            (CASE k[2] = "HTMLDivElement" -> "Block"
               [] k[2] = "HTMLHeadElement" -> "DisplayNone"
               [] k[2] = "HTMLImageElement" -> "Inline"
               [] k[2] = "HTMLScriptElement" -> "DisplayNone"
               [] k[2] = "UnknownElement" -> "Inline")
      [] k[1] \in {"Comment", "Doctype"} -> "DisplayNone"

\* (mutant) the width is preset to its default as well
empty_style_with_width(k) ==
    [background_color |-> None,
     display_type |-> Some(default_display_type(k)),
     font_size |-> None,
     height |-> None,
     text_color |-> None,
     width |-> Some("Auto")]

\* (mutant) the display type is left unset like the other fields
empty_style_without_display(k) ==
    [background_color |-> None,
     display_type |-> None,
     font_size |-> None,
     height |-> None,
     text_color |-> None,
     width |-> None]

empty_style_for_node_kind(k) ==
    [background_color |-> None,
     display_type |-> Some(default_display_type(k)),
     font_size |-> None,
     height |-> None,
     text_color |-> None,
     width |-> None]

----------------------------------------------------------------------------
(* Auxiliary data: the sequential operations.  They run in the calling     *)
(* task; st is the heap they act on, [aux, nextId, attached].              *)

has_aux(st, n) == st.aux[n] # None

\* Node.set_aux: attach the box to the node
set_aux(st, n, data) ==
    [st EXCEPT !.aux[n] = Some(data),
               !.attached[n] = Append(@, data.id)]

\* @LayoutData({...}): allocate a box with a fresh identity
NewLayoutData(st, k) ==
    [id |-> st.nextId,
     specified_style |-> empty_style_for_node_kind(k),
     box |-> None]

\* (mutant) the test is missing
AlwaysNeedsAux(st, n) == TRUE

\* the test of initialize_style: does the node still need its data?
NeedsAux(st, n) == ~has_aux(st, n)

\* (mutant) the box the node already has is returned
ExistingReturned(st, n) == [st |-> st, ret |-> <<st.aux[n][1].id>>]

\* (mutant) the style of the box the node already has is built anew
StyleReset(st, n) ==
    [st |-> [st EXCEPT !.aux[n] =
                Some([@[1] EXCEPT !.specified_style = empty_style_for_node_kind(kind[n])])],
     ret |-> <<>>]

\* the else branch of initialize_style: nothing changes, ~[] is returned
NothingNew(st, n) == [st |-> st, ret |-> <<>>]

\* initialize_style on n: the heap afterwards and the list returned
initialize_style(st, n) ==
    IF NeedsAux(st, n)
    THEN LET the_layout_data == NewLayoutData(st, kind[n])
             st1 == [st EXCEPT !.nextId = @ + 1]
         IN  [st |-> set_aux(st1, n, the_layout_data),
              ret |-> <<the_layout_data.id>>]
    ELSE NothingNew(st, n)

\* (mutant) what a kid returned is put in front of the list
GatheredInFront(handles, more) == more \o handles

\* handles += kid.initialize_style_for_subtree()
Gathered(handles, more) == handles \o more

RECURSIVE initialize_style_for_subtree(_, _)
RECURSIVE InitKids(_, _, _)
\* the for loop of initialize_style_for_subtree over the remaining kids
InitKids(st, handles, kids) ==
    IF kids = <<>> THEN [st |-> st, ret |-> handles]
    ELSE LET r == initialize_style_for_subtree(st, Head(kids))
         IN  InitKids(r.st, Gathered(handles, r.ret), Tail(kids))

\* (mutant) the first kid is skipped
InitChildrenButFirst(n) == IF each_child(n) = <<>> THEN <<>> ELSE Tail(each_child(n))

\* the kids initialize_style_for_subtree recurses into
InitChildren(n) == each_child(n)

initialize_style_for_subtree(st, n) ==
    LET r == initialize_style(st, n)
    IN  InitKids(r.st, r.ret, InitChildren(n))

\* get_specified_style on n: fails without auxiliary data, else a copy
get_specified_style(st, n) ==
    IF ~has_aux(st, n) THEN [failed |-> TRUE, style |-> None]
    ELSE [failed |-> FALSE, style |-> Some(st.aux[n][1].specified_style)]

Heap == [aux |-> aux, nextId |-> nextId, attached |-> attached]

----------------------------------------------------------------------------
(* The external collaborators of recomputation: the Stylesheet and the     *)
(* selector matcher match_css_style.                                       *)

\* A Stylesheet, seen through the matcher: the declarations <<field, value>>
\* that its rules assign to each node.
EmptyRules == [n \in Nodes |-> <<>>]

\* the first child of the root
FirstKid == Head(each_child(Root))

\* a width per node, and individual background colours for the subtrees of
\* the root's children: "A" below the first child, "B" below the others
SiblingRules ==
    [n \in Nodes |->
        IF n = Root THEN << <<"width", n>> >>
        ELSE << <<"background_color", IF n \in Subtree(FirstKid) THEN "A" ELSE "B">>,
                <<"width", n>> >>]

\* a Stylesheet on which the matcher fails fatally at node f
Fatal == << <<"fail", 0>> >>

FailingRules(f) == [SiblingRules EXCEPT ![f] = Fatal]

\* the Stylesheets the calling task recomputes with: the matcher fails on
\* the last one, at the first child of the root
RuleSets == {EmptyRules, SiblingRules} \cup {FailingRules(f) : f \in {2} \cap Nodes}

\* the matcher fails: without auxiliary data to write to, or on the sheet
MatchFails(a, n, sheet) == a[n] = None \/ sheet[n] = Fatal

RECURSIVE ApplyDecls(_, _)
ApplyDecls(style, decls) ==
    IF decls = <<>> THEN style
    ELSE ApplyDecls([style EXCEPT ![Head(decls)[1]] = Some(Head(decls)[2])], Tail(decls))

\* match_css_style on node n: the rules that match n assign their values
\* into n's own Specified Style, in place
match_css_style(a, n, sheet) ==
    [a EXCEPT ![n] = Some([a[n][1] EXCEPT !.specified_style = ApplyDecls(@, sheet[n])])]

----------------------------------------------------------------------------
(* recompute_style_for_subtree: one call per node, the call on a kid in a  *)
(* task of its own.  The call on n owns i[n] and the channel chan[n].      *)

\* (mutant) the spawned task is not counted
NotCounted(c) == c

\* i = i + 1u
Counted(c) == c + 1

\* (mutant) the loop stops one acknowledgment early
DrainingButOne(c) == c > 1

\* while i > 0
Draining(c) == c > 0

\* (mutant) a kid is spawned only once the kid before it has finished
MaySpawnAfterJoin(n) ==
    /\ kidx[n] < Len(each_child(n))
    /\ IF kidx[n] = 0 THEN TRUE ELSE pc[each_child(n)[kidx[n]]] = "done"

\* (mutant) a kid is spawned only while no other spawned task is running
MaySpawnBounded(n) ==
    /\ kidx[n] < Len(each_child(n))
    /\ \A m \in Nodes : m = top \/ pc[m] \in {"idle", "done", "failed"}

\* the for loop has a kid left to visit
MaySpawn(n) == kidx[n] < Len(each_child(n))

\* (mutant) the match step waits for the kids' tasks to finish
MayMatchAfterKids(n) ==
    /\ kidx[n] = Len(each_child(n))
    /\ \A j \in 1..Len(each_child(n)) : pc[each_child(n)[j]] = "done"

\* (mutant) the match step may start before the for loop is over
MayMatchEarly(n) == TRUE

\* the for loop is over, the call goes on to its own match step
MayMatch(n) == kidx[n] = Len(each_child(n))

\* let new_styles = clone(&styles): one more live handle
CloneHandle(h) == h + 1

\* (mutant) the handle of a task that ends stays alive
KeepHandle(h) == h

\* a task ends, the handle its closure owns is dropped
DropHandle(h) == h - 1

\* (mutant) the match step is applied to the parent of the receiver
MatchReceiverParent(n) == IF parent[n] = 0 THEN n ELSE parent[n]

\* (mutant) the match step is applied to the receiver's first kid
MatchReceiverKid(n) == IF each_child(n) = <<>> THEN n ELSE Head(each_child(n))

\* the node whose style the call on n matches: self.match_css_style
MatchReceiver(n) == n

\* (mutant) the task sends on the channel of its own call
AckChanOwn(n) == n

\* (mutant) the task holds the channel of the call above its spawner's
AckChanAbove(n) == IF parent[parent[n]] = 0 THEN parent[n] ELSE parent[parent[n]]

\* the call whose ack_chan the task spawned for kid n holds
AckChan(n) == parent[n]

\* (mutant) the ack is sent when the task ends, however it ends
AckReadyOrFailed(n) == pc[n] \in {"ret", "failed"}

\* the task of kid n sends its ack once its call has returned
AckReady(n) == pc[n] = "ret"

Live == {"spawn", "matching", "recv", "ret"}

RunIdle ==
    [n \in Nodes |-> "idle"]

\* the calling task calls r.recompute_style_for_subtree(sheet)
CallRecompute(r, sheet) ==
    /\ cpc = "idle"
    /\ ops < MaxOps
    /\ cpc' = "recompute"
    /\ ops' = ops + 1
    /\ top' = r
    /\ styles' = sheet
    /\ pre' = aux
    /\ last' = [op |-> "recompute_style_for_subtree", node |-> r,
                ret |-> <<>>, style |-> None, failed |-> FALSE]
    /\ pc' = [RunIdle EXCEPT ![r] = "spawn"]
    /\ i' = [n \in Nodes |-> 0]
    /\ kidx' = [n \in Nodes |-> 0]
    /\ chan' = [n \in Nodes |-> [s \in Nodes |-> 0]]
    /\ spawned' = [n \in Nodes |-> <<>>]
    /\ acked' = [n \in Nodes |-> [s \in Nodes |-> 0]]
    /\ writes' = [n \in Nodes |-> <<>>]
    /\ failure' = [n \in Nodes |-> "none"]
    /\ arc' = [arc EXCEPT !.cloned = 0]
    /\ UNCHANGED <<treeVars, auxVars, initDone>>

\* one iteration of the for loop: count the kid, clone the handle, spawn the
\* task, which enters the kid's call (listen, i = 0)
Spawn(n) ==
    /\ pc[n] = "spawn"
    /\ MaySpawn(n)
    /\ LET kid == each_child(n)[kidx[n] + 1]
       IN  /\ i' = [i EXCEPT ![n] = Counted(@)]
           /\ pc' = [pc EXCEPT ![kid] = "spawn"]
           /\ spawned' = [spawned EXCEPT ![n] = Append(@, kid)]
    /\ arc' = [live |-> CloneHandle(arc.live), cloned |-> arc.cloned + 1]
    /\ kidx' = [kidx EXCEPT ![n] = @ + 1]
    /\ UNCHANGED <<treeVars, auxVars, cpc, ops, last, initDone, top, styles, pre,
                   chan, acked, writes, failure>>

\* the for loop is over: enter self.match_css_style
BeginMatch(n) ==
    /\ pc[n] = "spawn"
    /\ MayMatch(n)
    /\ pc' = [pc EXCEPT ![n] = "matching"]
    /\ UNCHANGED <<treeVars, auxVars, cpc, ops, last, initDone, top, styles, pre, arc,
                   i, kidx, chan, spawned, acked, writes, failure>>

\* the match step completes: the style of the receiver is written
EndMatch(n) ==
    /\ pc[n] = "matching"
    /\ ~MatchFails(aux, MatchReceiver(n), styles)
    /\ aux' = match_css_style(aux, MatchReceiver(n), styles)
    /\ writes' = [writes EXCEPT ![MatchReceiver(n)] = Append(@, n)]
    /\ pc' = [pc EXCEPT ![n] = "recv"]
    /\ UNCHANGED <<treeVars, nextId, attached, cpc, ops, last, initDone, top,
                   styles, pre, i, kidx, chan, spawned, acked, failure, arc>>

\* the match step fails, and the task of the call unwinds, dropping what
\* it owns
FailMatch(n) ==
    /\ pc[n] = "matching"
    /\ MatchFails(aux, MatchReceiver(n), styles)
    /\ pc' = [pc EXCEPT ![n] = "failed"]
    /\ failure' = [failure EXCEPT ![n] =
                      IF aux[MatchReceiver(n)] = None THEN "no_aux" ELSE "matcher"]
    /\ cpc' = IF n = top THEN "aborted" ELSE cpc
    /\ arc' = IF n = top THEN arc ELSE [arc EXCEPT !.live = DropHandle(@)]
    /\ UNCHANGED <<treeVars, auxVars, ops, last, initDone, top, styles, pre,
                   i, kidx, chan, spawned, acked, writes>>

\* ack_chan.recv(); i = i - 1u
Recv(n) ==
    /\ pc[n] = "recv"
    /\ Draining(i[n])
    /\ \E s \in Nodes :
          /\ chan[n][s] > 0
          /\ chan' = [chan EXCEPT ![n][s] = @ - 1]
          /\ acked' = [acked EXCEPT ![n][s] = @ + 1]
    /\ i' = [i EXCEPT ![n] = @ - 1]
    /\ UNCHANGED <<treeVars, auxVars, cpc, ops, last, initDone, top, styles, pre,
                   pc, kidx, spawned, writes, failure, arc>>

\* the while loop is over: the call on n returns, to the calling task for
\* the top-level call, into the spawned closure for a kid
Return(n) ==
    /\ pc[n] = "recv"
    /\ ~Draining(i[n])
    /\ IF n = top
       THEN /\ pc' = [pc EXCEPT ![n] = "done"]
            /\ cpc' = "idle"
       ELSE /\ pc' = [pc EXCEPT ![n] = "ret"]
            /\ UNCHANGED cpc
    /\ UNCHANGED <<treeVars, auxVars, ops, last, initDone, top, styles, pre,
                   i, kidx, chan, spawned, acked, writes, failure, arc>>

\* ack_chan.send(()), the last statement of the spawned task: the task
\* ends and its closure, with the cloned handle, is freed
SendAck(n) ==
    /\ n # top
    /\ AckReady(n)
    /\ AckChan(n) \in Nodes
    /\ chan' = [chan EXCEPT ![AckChan(n)][n] = @ + 1]
    /\ pc' = [pc EXCEPT ![n] = "done"]
    /\ arc' = [arc EXCEPT !.live = DropHandle(@)]
    /\ UNCHANGED <<treeVars, auxVars, cpc, ops, last, initDone, top, styles, pre,
                   i, kidx, spawned, acked, writes, failure>>

\* tasks spawned by task::spawn are linked to their spawner, in both
\* directions: once a task of the group has failed, the tasks of the group
\* that still run may be killed (here all at once; a task that is killed
\* later only takes steps it could take anyway)
LinkedFailure ==
    /\ \E m \in Nodes : pc[m] = "failed"
    /\ \E n \in Nodes : pc[n] \in Live
    /\ pc' = [n \in Nodes |-> IF pc[n] \in Live THEN "failed" ELSE pc[n]]
    /\ failure' = [n \in Nodes |-> IF pc[n] \in Live THEN "killed" ELSE failure[n]]
    /\ cpc' = IF pc[top] \in Live THEN "aborted" ELSE cpc
    /\ arc' = [arc EXCEPT !.live =
                  @ - Cardinality({n \in Nodes : n # top /\ pc[n] \in Live})]
    /\ UNCHANGED <<treeVars, auxVars, ops, last, initDone, top, styles, pre,
                   i, kidx, chan, spawned, acked, writes>>

----------------------------------------------------------------------------
(* The sequential operations, called by the calling task *)

CallInitializeStyle(n) ==
    /\ cpc = "idle"
    /\ ops < MaxOps
    /\ LET r == initialize_style(Heap, n)
       IN  /\ aux' = r.st.aux
           /\ nextId' = r.st.nextId
           /\ attached' = r.st.attached
           /\ last' = [op |-> "initialize_style", node |-> n,
                       ret |-> r.ret, style |-> None, failed |-> FALSE]
    /\ ops' = ops + 1
    /\ UNCHANGED <<treeVars, cpc, initDone, runVars>>

CallInitializeStyleForSubtree(n) ==
    /\ cpc = "idle"
    /\ ops < MaxOps
    /\ LET r == initialize_style_for_subtree(Heap, n)
       IN  /\ aux' = r.st.aux
           /\ nextId' = r.st.nextId
           /\ attached' = r.st.attached
           /\ last' = [op |-> "initialize_style_for_subtree", node |-> n,
                       ret |-> r.ret, style |-> None, failed |-> FALSE]
    /\ ops' = ops + 1
    /\ initDone' = initDone \cup {n}
    /\ UNCHANGED <<treeVars, cpc, runVars>>

CallGetSpecifiedStyle(n) ==
    /\ cpc = "idle"
    /\ ops < MaxOps
    /\ LET r == get_specified_style(Heap, n)
       IN  /\ last' = [op |-> "get_specified_style", node |-> n,
                       ret |-> <<>>, style |-> r.style, failed |-> r.failed]
           /\ cpc' = IF r.failed THEN "aborted" ELSE cpc
    /\ ops' = ops + 1
    /\ UNCHANGED <<treeVars, auxVars, initDone, runVars>>

----------------------------------------------------------------------------
(* The system *)

\* a freshly built document tree: no node has auxiliary data
Fresh ==
    /\ aux = [n \in Nodes |-> None]
    /\ nextId = 1
    /\ attached = [n \in Nodes |-> <<>>]
    /\ cpc = "idle"
    /\ ops = 0
    /\ last = [op |-> "none", node |-> 0, ret |-> <<>>, style |-> None, failed |-> FALSE]
    /\ initDone = {}
    /\ top = Root
    /\ styles = EmptyRules
    /\ pre = aux
    /\ pc = RunIdle
    /\ i = [n \in Nodes |-> 0]
    /\ kidx = [n \in Nodes |-> 0]
    /\ chan = [n \in Nodes |-> [s \in Nodes |-> 0]]
    /\ spawned = [n \in Nodes |-> <<>>]
    /\ acked = [n \in Nodes |-> [s \in Nodes |-> 0]]
    /\ writes = [n \in Nodes |-> <<>>]
    /\ failure = [n \in Nodes |-> "none"]
    /\ arc = [live |-> 1, cloned |-> 0]

\* a step of the task that runs the call on n
TaskStep(n) ==
    \/ Spawn(n)
    \/ BeginMatch(n)
    \/ EndMatch(n)
    \/ FailMatch(n)
    \/ Recv(n)
    \/ Return(n)
    \/ SendAck(n)

Next ==
    \/ \E n \in Nodes : CallInitializeStyle(n)
    \/ CallInitializeStyleForSubtree(Root)
    \/ \E n \in Nodes : CallGetSpecifiedStyle(n)
    \/ \E sheet \in RuleSets : CallRecompute(Root, sheet)
    \/ \E n \in Nodes : Spawn(n)
    \/ \E n \in Nodes : BeginMatch(n)
    \/ \E n \in Nodes : EndMatch(n)
    \/ \E n \in Nodes : FailMatch(n)
    \/ \E n \in Nodes : Recv(n)
    \/ \E n \in Nodes : Return(n)
    \/ \E n \in Nodes : SendAck(n)
    \/ LinkedFailure

Init ==
    /\ parent \in Trees
    /\ kind = KindsOf(Len(parent))
    /\ sched = "any"
    /\ Fresh

Spec == Init /\ [][Next]_vars

----------------------------------------------------------------------------
(* The fork-join on its own, also on the complete binary tree of 7 nodes:  *)
(* the calling task initializes the whole tree and recomputes it.          *)

Binary7 == <<0, 1, 1, 2, 2, 3, 3>>

\* the matcher fails on the second Stylesheet, at the last node of the tree
ForkSheets == {SiblingRules, FailingRules(Len(parent))}

ForkInit ==
    /\ parent \in Trees \cup {Binary7}
    /\ kind = KindsOf(Len(parent))
    /\ sched = "any"
    /\ Fresh

ForkNext ==
    \/ CallInitializeStyleForSubtree(Root)
    \/ \E sheet \in ForkSheets : CallRecompute(Root, sheet)
    \/ \E n \in Nodes : Spawn(n)
    \/ \E n \in Nodes : BeginMatch(n)
    \/ \E n \in Nodes : EndMatch(n)
    \/ \E n \in Nodes : FailMatch(n)
    \/ \E n \in Nodes : Recv(n)
    \/ \E n \in Nodes : Return(n)
    \/ \E n \in Nodes : SendAck(n)
    \/ LinkedFailure

ForkSpec == ForkInit /\ [][ForkNext]_vars

----------------------------------------------------------------------------
(* Fair scheduling of the fork-join: a task that can take a step          *)
(* eventually takes one.                                                   *)

FairStep(n) == n \in Nodes /\ TaskStep(n)

LiveSpec == Init /\ [][ForkNext]_vars /\ \A n \in 1..MaxNodes : WF_vars(FairStep(n))

----------------------------------------------------------------------------
(* The sequential operations on trees whose nodes are of every kind.      *)

\* the kinds of a tree of n nodes, from the s-th kind on
KindsFrom(s, n) == [c \in 1..n |-> NodeKinds[((c - 1 + s) % Len(NodeKinds)) + 1]]

KindInit ==
    /\ parent \in Trees
    /\ kind \in {KindsFrom(s, Len(parent)) : s \in 0..(Len(NodeKinds) - 1)}
    /\ sched = "any"
    /\ Fresh

KindNext ==
    \/ \E n \in Nodes : CallInitializeStyle(n)
    \/ CallInitializeStyleForSubtree(Root)
    \/ \E n \in Nodes : CallGetSpecifiedStyle(n)

KindSpec == KindInit /\ [][KindNext]_vars

----------------------------------------------------------------------------
(* Scheduling policies.  The scheduler of the tasks is free: a policy     *)
(* holds a task back at one point of its code until the policy's          *)
(* condition is met, which a scheduler may do.  Every step under a policy *)
(* is a step of the program; a top-level call that completes under a      *)
(* policy is an execution of the program in the order of the policy.      *)

Schedules == {"descendants_first", "ancestors_first", "first_kid_first",
              "last_kid_first", "spawn_all_first"}

\* the next step of the call on n is its own match step
AtMatch(n) == pc[n] = "spawn" /\ kidx[n] = Len(each_child(n))

\* the subtree of some sibling of n or of an ancestor of n, on the side
\* given by earlier, has a task that has not finished
SiblingPending(n, earlier) ==
    \E x \in {n} \cup Ancestors(n) : \E y \in Nodes :
        /\ parent[y] = parent[x]
        /\ IF earlier THEN y < x ELSE y > x
        /\ \E m \in Subtree(y) : pc[m] # "done"

\* the policy holds the task of the call on n back
Held(n) ==
    CASE sched = "descendants_first" ->
            AtMatch(n) /\ \E d \in Descendants(n) :
                             \A t \in Nodes : \A j \in 1..Len(writes[t]) : writes[t][j] # d
      [] sched = "ancestors_first" ->
            AtMatch(n) /\ \E a \in Ancestors(n) :
                             \A t \in Nodes : \A j \in 1..Len(writes[t]) : writes[t][j] # a
      [] sched = "first_kid_first" -> AtMatch(n) /\ SiblingPending(n, TRUE)
      [] sched = "last_kid_first" -> AtMatch(n) /\ SiblingPending(n, FALSE)
      [] sched = "spawn_all_first" ->
            pc[n] = "ret" /\ \E m \in Nodes : pc[m] = "idle"
      [] OTHER -> FALSE

SchedStep(n) == n \in Nodes /\ ~Held(n) /\ TaskStep(n)

SchedInit ==
    /\ parent \in Trees
    /\ kind = KindsOf(Len(parent))
    /\ sched \in Schedules
    /\ Fresh

SchedNext ==
    \/ CallInitializeStyleForSubtree(Root)
    \/ \E sheet \in ForkSheets : CallRecompute(Root, sheet)
    \/ \E n \in Nodes : ~Held(n) /\ Spawn(n)
    \/ \E n \in Nodes : ~Held(n) /\ BeginMatch(n)
    \/ \E n \in Nodes : ~Held(n) /\ EndMatch(n)
    \/ \E n \in Nodes : ~Held(n) /\ FailMatch(n)
    \/ \E n \in Nodes : ~Held(n) /\ Recv(n)
    \/ \E n \in Nodes : ~Held(n) /\ Return(n)
    \/ \E n \in Nodes : ~Held(n) /\ SendAck(n)
    \/ LinkedFailure

SchedSpec ==
    SchedInit /\ [][SchedNext]_vars /\ \A n \in 1..MaxNodes : WF_vars(SchedStep(n))

----------------------------------------------------------------------------
(* Properties *)

Returned == {"ret", "done"}

\* the call on d has completed its own match step
MatchDone(d) == \E t \in Nodes : \E j \in 1..Len(writes[t]) : writes[t][j] = d

RECURSIVE SumLen(_, _)
SumLen(f, S) ==
    IF S = {} THEN 0
    ELSE LET x == CHOOSE y \in S : TRUE IN Len(f[x]) + SumLen(f, S \ {x})

\* the number of match steps completed in the current top-level call
MatchCount == SumLen(writes, Nodes)

RECURSIVE Sum(_, _)
Sum(f, S) ==
    IF S = {} THEN 0
    ELSE LET x == CHOOSE y \in S : TRUE IN f[x] + Sum(f, S \ {x})

\* C1: whenever a call recompute_style_for_subtree(n) has returned, the own
\* match step has completed for n and for every node of the subtree of n;
\* the top-level return observes one completed match per node of the tree
\* (7 on the complete binary tree of 7 nodes).
ForkJoinCompletion ==
    /\ \A n \in Nodes :
          pc[n] \in Returned => \A d \in Subtree(n) : MatchDone(d)
    /\ pc[top] = "done" => MatchCount = Cardinality(Subtree(top))

ForkJoinCompletionWitness ==
    /\ parent = Binary7
    /\ pc[Root] = "done"
    /\ MatchCount = 7

\* C2: when a call on n has returned, every task spawned for a proper
\* descendant of n has finished.
NoReturnBeforeDescendants ==
    \A n \in Nodes :
        pc[n] \in Returned => \A d \in Descendants(n) : pc[d] = "done"

NoReturnBeforeDescendantsWitness ==
    /\ pc[Root] = "done"
    /\ \E d \in Nodes : Cardinality(Ancestors(d)) >= 2

\* C3: at most one task is inside the match step of a node; a node's style
\* is written only by the call whose receiver is the node, at most once per
\* top-level call, and exactly once when the top-level call has returned.
SingleWriterPerNode ==
    /\ \A n \in Nodes :
          Cardinality({t \in Nodes : pc[t] = "matching" /\ MatchReceiver(t) = n}) <= 1
    /\ \A n \in Nodes :
          /\ Len(writes[n]) <= 1
          /\ \A j \in 1..Len(writes[n]) : writes[n][j] = n
    /\ pc[top] = "done" => \A n \in Subtree(top) : writes[n] = <<n>>

SingleWriterPerNodeWitness ==
    /\ pc[Root] = "done"
    /\ Len(parent) >= 3
    /\ \A n \in Nodes : writes[n] = <<n>>

\* the call on n has left its for loop
PastLoop(n) ==
    pc[n] \in {"matching", "recv", "ret", "done"} \/ failure[n] \in {"no_aux", "matcher"}

\* the task of the call on n cannot take a step
Blocked(n) == pc[n] \in Live /\ ~ENABLED TaskStep(n)

\* C4: a call spawns one task per child, in iteration order; it blocks only
\* in its draining loop; the acknowledgments on its channel come from its
\* own direct children's finished tasks, one each; its counter is the number
\* of tasks spawned and not yet acknowledged; and when it has returned the
\* counter is 0, every child's acknowledgment has been received and none
\* remains on the channel.
CountdownRendezvous ==
    \A n \in Nodes :
        /\ spawned[n] = SubSeq(each_child(n), 1, kidx[n])
        /\ PastLoop(n) => spawned[n] = each_child(n)
        /\ \A s \in Nodes :
              /\ acked[n][s] + chan[n][s] <= 1
              /\ acked[n][s] + chan[n][s] = 1 => parent[s] = n /\ pc[s] = "done"
        /\ pc[n] \in Live \cup Returned =>
              i[n] = Len(spawned[n]) - Sum(acked[n], Nodes)
        /\ Blocked(n) =>
              pc[n] = "recv" /\ Draining(i[n]) /\ \A s \in Nodes : chan[n][s] = 0
        /\ pc[n] \in Returned =>
              /\ i[n] = 0
              /\ \A s \in Nodes : chan[n][s] = 0
              /\ \A s \in Nodes : acked[n][s] = (IF parent[s] = n THEN 1 ELSE 0)

CountdownRendezvousWitness ==
    /\ pc[Root] = "done"
    /\ Len(spawned[Root]) = 2
    /\ Sum(acked[Root], Nodes) = 2
    /\ i[Root] = 0

\* the task of some call of the current recompute has failed
FailedSome == \E n \in Nodes : failure[n] # "none"

\* C5: with fairly scheduled tasks, a top-level call whose match steps do
\* not fail eventually returns to the calling task.
Termination == (cpc = "recompute") ~> (cpc = "idle" \/ FailedSome)

TerminationWitness ==
    /\ cpc = "idle"
    /\ pc[Root] = "done"
    /\ ~FailedSome
    /\ Len(parent) >= 3
    /\ ops = 2

\* the background colour of node n
Background(n) == aux[n][1].specified_style.background_color

\* C6: when the top-level call has returned, every node's auxiliary data is
\* what the matcher, applied to that node alone on the data the node had at
\* the call, leaves; and the colour "A" is only ever found below the root's
\* first child, the colour "B" only below its other children.
Isolation ==
    /\ pc[top] = "done" =>
          \A n \in Nodes :
              aux[n] = (IF n \in Subtree(top) /\ pre[n] # None
                        THEN match_css_style(pre, n, styles)[n] ELSE pre[n])
    /\ \A n \in Nodes :
          aux[n] # None =>
              /\ Background(n) = Some("A") => n \in Subtree(FirstKid)
              /\ Background(n) = Some("B") => n \in Descendants(Root) \ Subtree(FirstKid)

IsolationWitness ==
    /\ pc[Root] = "done"
    /\ styles = SiblingRules
    /\ \E a, b \in Nodes :
          /\ aux[a] # None /\ Background(a) = Some("A")
          /\ aux[b] # None /\ Background(b) = Some("B")

\* C7: once the match step of a node has failed, the top-level call never
\* returns to the calling task, and a failed task stays failed: its match
\* step is not run again.
FailureIsFatal ==
    [][/\ FailedSome' => (pc'[top] # "done" /\ cpc' # "idle")
       /\ \A n \in Nodes : pc[n] = "failed" => pc'[n] = "failed"]_vars

FailureIsFatalWitness ==
    /\ pc[top] = "recv"
    /\ \E n, k \in Nodes : failure[n] = "matcher" /\ pc[k] = "done"

\* C8: once initialize_style_for_subtree(root) has returned, no match step
\* fails for want of auxiliary data and get_specified_style fails on no
\* node; and a recomputation leaves every node with the box, or the lack of
\* one, that it had when the recomputation was called.
InitializeBeforeRecompute ==
    /\ Root \in initDone =>
          /\ \A n \in Nodes : failure[n] # "no_aux"
          /\ \A n \in Nodes : ~get_specified_style(Heap, n).failed
          /\ ~(last.op = "get_specified_style" /\ last.failed)
    /\ last.op = "recompute_style_for_subtree" =>
          \A n \in Nodes :
              /\ (aux[n] = None) = (pre[n] = None)
              /\ aux[n] # None => aux[n][1].id = pre[n][1].id

InitializeBeforeRecomputeWitness ==
    /\ Root \in initDone
    /\ pc[Root] = "done"
    /\ Len(parent) >= 2
    /\ last.op = "get_specified_style"
    /\ last.node # Root
    /\ ~last.failed

\* C9: a node never has had more than one box attached, and the box a node
\* has is never removed or replaced.
AtMostOneContainer ==
    [][\A n \in Nodes :
          /\ Len(attached'[n]) <= 1
          /\ aux'[n] # None => attached'[n] = <<aux'[n][1].id>>
          /\ aux[n] # None => (aux'[n] # None /\ aux'[n][1].id = aux[n][1].id)]_vars

AtMostOneContainerWitness ==
    /\ ops = 3
    /\ pc[Root] = "done"
    /\ last.op = "initialize_style"
    /\ last.ret = <<>>
    /\ \A n \in Nodes : Len(attached[n]) = 1

\* C10: a call of initialize_style_for_subtree(root) made after one has
\* returned returns the empty list.
InitializationIdempotent ==
    [][(/\ ops' = ops + 1
        /\ last'.op = "initialize_style_for_subtree"
        /\ last'.node \in initDone) => last'.ret = <<>>]_vars

InitializationIdempotentWitness ==
    /\ ops = 2
    /\ Len(parent) = 3
    /\ last.op = "initialize_style_for_subtree"
    /\ last.ret = <<>>
    /\ \A n \in Nodes : aux[n] # None


\* the nodes of the subtree of n, in pre-order
RECURSIVE PreOrder(_)
RECURSIVE PreOrderOfAll(_)
PreOrderOfAll(kids) ==
    IF kids = <<>> THEN <<>>
    ELSE PreOrder(Head(kids)) \o PreOrderOfAll(Tail(kids))

PreOrder(n) == <<n>> \o PreOrderOfAll(SelectSeq([c \in 1..Len(parent) |-> c],
                                                 LAMBDA c : parent[c] = n))

\* a step of the calling task that is the operation named op
StepOf(op) == ops' = ops + 1 /\ last'.op = op

\* C11: initialize_style_for_subtree returns the boxes of exactly the nodes
\* of the subtree that had no auxiliary data before the call, one each, in
\* pre-order, and afterwards every node of the subtree has auxiliary data.
SubtreeInitReturnsNewInPreOrder ==
    [][StepOf("initialize_style_for_subtree") =>
        LET r == last'.node
            were == SelectSeq(PreOrder(r), LAMBDA n : aux[n] = None)
        IN  /\ last'.ret = [j \in 1..Len(were) |-> aux'[were[j]][1].id]
            /\ \A n \in Subtree(r) : aux'[n] # None]_vars

\* the subtree initializer ran on a tree of three nodes of which one had
\* its data already, and returned the two new boxes
SubtreeInitReturnsNewInPreOrderWitness ==
    /\ last.op = "initialize_style_for_subtree"
    /\ ops = 2
    /\ Len(parent) = 3
    /\ Len(last.ret) = 2
    /\ \A n \in Nodes : aux[n] # None


\* a style with nothing set but the display type
OnlyDisplay(d) ==
    [background_color |-> None, display_type |-> Some(d), font_size |-> None,
     height |-> None, text_color |-> None, width |-> None]

AccessorFailed ==
    /\ last.op = "get_specified_style"
    /\ last.failed
    /\ cpc = "aborted"


\* the display type and the five other fields of the style of node n
DisplayOf(n) == aux[n][1].specified_style.display_type

OthersUnset(n) ==
    LET st == aux[n][1].specified_style
    IN  /\ st.background_color = None
        /\ st.font_size = None
        /\ st.height = None
        /\ st.text_color = None
        /\ st.width = None

\* the tree of the example: a div root with a text kid and an image kid
DivTextImage ==
    /\ parent = <<0, 1, 1>>
    /\ kind = << <<"Element", "HTMLDivElement">>, <<"Text">>,
                 <<"Element", "HTMLImageElement">> >>

\* C13: when no rule matches any node (the empty rule set), a completed
\* recomputation of an initialized tree leaves the style of every node as
\* it was; on the freshly initialized div-text-image tree the display types
\* stay Block, Inline, Inline and every other field stays unset.
NoMatchLeavesDefaults ==
    pc[top] = "done" /\ styles = EmptyRules =>
        /\ aux = pre
        /\ \A n \in Nodes : aux[n] # None
        /\ DivTextImage /\ ops = 2 /\ Root \in initDone =>
              /\ DisplayOf(1) = Some("Block")
              /\ DisplayOf(2) = Some("Inline")
              /\ DisplayOf(3) = Some("Inline")
              /\ \A n \in Nodes : OthersUnset(n)

\* the div-text-image tree was initialized and then recomputed with the
\* empty rule set, and the call returned
NoMatchLeavesDefaultsWitness ==
    /\ DivTextImage
    /\ ops = 2
    /\ Root \in initDone
    /\ pc[top] = "done"
    /\ styles = EmptyRules
    /\ cpc = "idle"


\* the call on n has started its own match step
MatchStarted(n) == pc[n] \in {"matching", "recv", "ret", "done"}

\* the top-level call made under one of the policies S ends
EndsUnder(S) == (sched \in S /\ cpc = "recompute") ~> (cpc = "idle" \/ FailedSome)

\* C14: a node's own match step and the match steps of its descendants are
\* not ordered.  Under the policy that holds every match step back until
\* the descendants' ones completed, and under the policy that holds it back
\* until the ancestors' ones completed, every top-level call still ends: an
\* execution with d's match step completed before p's started, and one with
\* p's completed before d's started, both exist within one call.
MatchOrderFree ==
    /\ [](sched = "descendants_first" =>
            \A p \in Nodes : \A d \in Descendants(p) :
                MatchStarted(p) => MatchDone(d))
    /\ [](sched = "ancestors_first" =>
            \A p \in Nodes : \A d \in Descendants(p) :
                MatchStarted(d) => MatchDone(p))
    /\ EndsUnder({"descendants_first", "ancestors_first"})

\* a call on a chain of three nodes returned, every descendant having
\* matched before its ancestors started to
MatchOrderFreeWitness ==
    /\ sched = "descendants_first"
    /\ parent = <<0, 1, 2>>
    /\ pc[Root] = "done"
    /\ cpc = "idle"
    /\ \A n \in Nodes : MatchDone(n)

\* the same with every ancestor having matched before its descendants
\* started to
AncestorsFirstReached ==
    /\ sched = "ancestors_first"
    /\ parent = <<0, 1, 2>>
    /\ pc[Root] = "done"
    /\ cpc = "idle"
    /\ \A n \in Nodes : MatchDone(n)


\* every task of the subtree of a finished before any match step of the
\* subtree of b started
SubtreeBefore(a, b) ==
    \A m \in Subtree(b) : MatchStarted(m) => \A x \in Subtree(a) : pc[x] = "done"

\* C15: the subtrees of two kids a, b of one node (a before b in child
\* order) are not ordered.  Under the policy that runs the earlier kid's
\* subtree to its end first, and under the policy that runs the later
\* kid's subtree to its end first, every top-level call still ends: an
\* execution where a's whole subtree finishes before any match step of
\* b's subtree, and one where b's finishes before any of a's, both exist.
SiblingOrderFree ==
    /\ [](sched = "first_kid_first" =>
            \A a, b \in Nodes : parent[a] = parent[b] /\ a < b => SubtreeBefore(a, b))
    /\ [](sched = "last_kid_first" =>
            \A a, b \in Nodes : parent[a] = parent[b] /\ a < b => SubtreeBefore(b, a))
    /\ EndsUnder({"first_kid_first", "last_kid_first"})

\* a call on a root with two kids returned, the task of the second kid
\* having finished before the first kid's match step started
SiblingOrderFreeWitness ==
    /\ sched = "last_kid_first"
    /\ parent = <<0, 1, 1>>
    /\ pc[Root] = "done"
    /\ cpc = "idle"
    /\ \A n \in Nodes : MatchDone(n)

\* the same with the first kid's task finished first
FirstKidFirstReached ==
    /\ sched = "first_kid_first"
    /\ parent = <<0, 1, 1>>
    /\ pc[Root] = "done"
    /\ cpc = "idle"
    /\ \A n \in Nodes : MatchDone(n)


\* the spawned tasks that have not finished
LiveTasks == {n \in Nodes : n # top /\ pc[n] \in Live}

\* C16: handles of the rule set.  One handle is cloned per spawned task and
\* none for a node's own match step; cloning leaves the rule set as it is;
\* a task's handle is released by the time the task finishes, so the live
\* handles are the caller's and one per unfinished task, and once the last
\* task has finished only the caller's handle is left.
HandleAccounting ==
    /\ [](/\ arc.cloned = SumLen(spawned, Nodes)
          /\ arc.live = 1 + Cardinality(LiveTasks)
          /\ LiveTasks = {} => arc.live = 1
          /\ pc[top] = "done" => arc.cloned = Len(parent) - 1)
    /\ [][arc' # arc /\ arc'.cloned # 0 => styles' = styles]_vars

\* a call on a tree of three nodes returned: two handles were cloned and
\* only the caller's is left
HandleAccountingWitness ==
    /\ Len(parent) = 3
    /\ pc[top] = "done"
    /\ arc = [live |-> 1, cloned |-> 2]


\* the table of the default display types, kind by kind
DisplayTable(k) ==
    CASE k = <<"Text">> -> "Inline"
      [] k = <<"Element", "HTMLDivElement">> -> "Block"
      [] k = <<"Element", "HTMLHeadElement">> -> "DisplayNone"
      [] k = <<"Element", "HTMLImageElement">> -> "Inline"
      [] k = <<"Element", "HTMLScriptElement">> -> "DisplayNone"
      [] k = <<"Element", "UnknownElement">> -> "Inline"
      [] k = <<"Comment">> -> "DisplayNone"
      [] k = <<"Doctype">> -> "DisplayNone"

\* C17: default_display_type is defined for every node kind and follows
\* the table (text Inline, div Block, head DisplayNone, image Inline,
\* script DisplayNone, unknown element Inline, comment and doctype
\* DisplayNone); the style the factory builds for a node, and the accessor
\* returns, holds exactly this value as its display type.
DefaultDisplayTable ==
    /\ \A n \in Nodes : aux[n] # None =>
          aux[n][1].specified_style = OnlyDisplay(DisplayTable(kind[n]))
    /\ last.op = "get_specified_style" /\ ~last.failed =>
          last.style[1].display_type = Some(DisplayTable(kind[last.node]))

\* the style of a head element was built and read back
DefaultDisplayTableWitness ==
    /\ last.op = "get_specified_style"
    /\ ~last.failed
    /\ kind[last.node] = <<"Element", "HTMLHeadElement">>
    /\ last.style[1].display_type = Some("DisplayNone")

\* nodes of every kind had their style built
EveryKindBuilt(k) == \E n \in Nodes : kind[n] = k /\ aux[n] # None


\* the acks the call on n has received
Received(n) == Sum(acked[n], Nodes)

\* C18: the order of the steps of one call.  The call has spawned the
\* tasks of all its kids, in child order, before it starts its own match
\* step; it has finished its own match step before it receives the first
\* ack; and the task of a kid sends its ack only after the kid's call has
\* returned, its own match step done and the acks of all its kids drained.
StepOrder ==
    \A n \in Nodes :
        /\ MatchStarted(n) \/ MatchDone(n) => spawned[n] = each_child(n)
        /\ Received(n) > 0 => MatchDone(n)
        /\ \A s \in Nodes : chan[n][s] + acked[n][s] > 0 =>
              /\ MatchDone(s)
              /\ i[s] = 0
              /\ Received(s) = Len(each_child(s))
              /\ \A g \in Nodes : parent[g] = s => acked[s][g] = 1

\* the root of a chain of three nodes, its match step done, has received
\* the ack of its kid, whose call had drained the ack of its own kid
StepOrderWitness ==
    /\ parent = <<0, 1, 2>>
    /\ pc[Root] = "recv"
    /\ MatchDone(Root)
    /\ Received(Root) = 1
    /\ acked[2][3] = 1


\* the tasks spawned so far in the current top-level call
TasksSpawned == SumLen(spawned, Nodes)

\* how many times a task was spawned for node s
SpawnsOf(s) == Cardinality({<<n, j>> \in Nodes \X (1..Len(parent)) :
                               j <= Len(spawned[n]) /\ spawned[n][j] = s})

\* C19: a top-level call on a tree of N nodes spawns exactly N-1 tasks,
\* one per node other than the root, and nothing bounds how many of them
\* are alive at once: under the policy that lets no task finish before
\* all are spawned every call still ends, so a state where all N-1 tasks
\* are spawned and none has finished exists.
AllTasksLiveAtOnce ==
    /\ [](/\ TasksSpawned <= Len(parent) - 1
          /\ \A s \in Nodes : SpawnsOf(s) = (IF pc[s] = "idle" \/ s = top THEN 0 ELSE 1)
          /\ pc[top] = "done" => TasksSpawned = Len(parent) - 1)
    /\ [](sched = "spawn_all_first" /\ (\E s \in Nodes : s # top /\ pc[s] = "done")
             => \A m \in Nodes : pc[m] # "idle")
    /\ EndsUnder({"spawn_all_first"})

\* the two tasks of a call on a tree of three nodes are spawned and none
\* of them has finished
AllTasksLiveAtOnceWitness ==
    /\ sched = "spawn_all_first"
    /\ Len(parent) = 3
    /\ TasksSpawned = 2
    /\ \A n \in Nodes : n # top => pc[n] = "ret"


\* C20: initializing again preserves what is there.  A step of
\* initialize_style or initialize_style_for_subtree leaves the box of
\* every node that already had one as it was: same box, same Specified
\* Style, same layout box slot; so the styles the match steps of a
\* recomputation wrote survive a later initialize_style_for_subtree.
ReinitializationPreserves ==
    [][StepOf("initialize_style") \/ StepOf("initialize_style_for_subtree") =>
        \A n \in Nodes : aux[n] # None =>
            /\ aux'[n] = aux[n]
            /\ attached'[n] = attached[n]]_vars

\* the tree was initialized, recomputed with rules that set the width of
\* every node, and initialized again: the widths are still set
ReinitializationPreservesWitness ==
    /\ last.op = "initialize_style_for_subtree"
    /\ ops = 3
    /\ last.ret = <<>>
    /\ pc[top] = "done"
    /\ styles = SiblingRules
    /\ Len(parent) = 3
    /\ \A n \in Nodes : aux[n][1].specified_style.width # None

====
